---- MODULE Spec2Model ----
(***************************************************************************)
(* Model of the view/transform pipeline of the 3D graphic renderer          *)
(* (class ViewContext, src/src/ViewContext.cpp) and of the way the event    *)
(* handler MyDrawing drives it (src/unnamed/part_001).                      *)
(*                                                                          *)
(* Numbers.  The code computes in IEEE doubles.  The model computes in the  *)
(* extended rationals: a value is a pair <<n, d>> in lowest terms, d > 0    *)
(* for a finite number, <<1,0>> for +infinity, <<-1,0>> for -infinity and   *)
(* <<0,0>> for not-a-number, with the IEEE rules for division by zero and   *)
(* for arithmetic on the non-finite values.  Rounding is not modelled (the  *)
(* properties are read exactly where the specification says "within         *)
(* tolerance"), signed zeros are not distinguished, and PI is the exact     *)
(* half-turn, so angles are restricted to the multiples of 90 degrees,      *)
(* whose sines and cosines are rational.  Eye positions are restricted to   *)
(* those whose norms are rational.                                          *)
(***************************************************************************)
EXTENDS Integers, Sequences, FiniteSets, TLC

\* ------------------------------------------------------------------------
\* Bounds of the model
\* ------------------------------------------------------------------------

\* calls made on one pipeline in the general specification
MaxOps == 2

\* calls made on one pipeline in the edit specification
MaxEditOps == 3

\* calls made on one pipeline in the orbit specification
MaxOrbitOps == 6

\* how far below zero and above the constructed value the key specification
\* follows the FOV value
FovSpan == 20

\* ------------------------------------------------------------------------
\* double arithmetic
\* ------------------------------------------------------------------------

Abs(i) == IF i < 0 THEN -i ELSE i

Sgn(i) == IF i < 0 THEN -1 ELSE IF i > 0 THEN 1 ELSE 0

RECURSIVE GCD(_, _)
GCD(a, b) == IF b = 0 THEN a ELSE GCD(b, a % b)

\* the value n/d in canonical form
Norm(n, d) ==
    IF d = 0 THEN <<Sgn(n), 0>>
    ELSE IF n = 0 THEN <<0, 1>>
    ELSE IF d = 1 THEN <<n, 1>>
    ELSE LET g == GCD(Abs(n), Abs(d))
             s == IF d < 0 THEN -1 ELSE 1
         IN  <<(s * n) \div g, (s * d) \div g>>

Num(i) == <<i, 1>>

Zero == <<0, 1>>

One == <<1, 1>>

NaN == <<0, 0>>

IsFinite(x) == x[2] # 0

IsNaN(x) == x = NaN

RNeg(x) == <<-x[1], x[2]>>

RAdd(x, y) ==
    IF IsNaN(x) \/ IsNaN(y) THEN NaN
    ELSE IF ~IsFinite(x) THEN (IF ~IsFinite(y) /\ y # x THEN NaN ELSE x)
    ELSE IF ~IsFinite(y) THEN y
    ELSE IF x[1] = 0 THEN y
    ELSE IF y[1] = 0 THEN x
    ELSE Norm(x[1] * y[2] + y[1] * x[2], x[2] * y[2])

RSub(x, y) == RAdd(x, RNeg(y))

RMul(x, y) == Norm(x[1] * y[1], x[2] * y[2])

\* x / y; a finite non-zero x over zero is an infinity, 0/0 is not-a-number
RDiv(x, y) ==
    IF y[1] < 0 THEN Norm(-(x[1] * y[2]), -(x[2] * y[1]))
    ELSE Norm(x[1] * y[2], x[2] * y[1])

\* std::abs on a double
RAbs(x) == <<Abs(x[1]), x[2]>>

\* the integer square root of a perfect square
ISqrt(n) == CHOOSE k \in 0..n : k * k = n

\* std::sqrt, on the squares of rationals
RSqrt(x) ==
    IF IsNaN(x) \/ x[1] < 0 THEN NaN
    ELSE IF ~IsFinite(x) THEN x
    ELSE <<ISqrt(x[1]), ISqrt(x[2])>>

\* std::pow(x, 2)
RSq(x) == RMul(x, x)

\* PI/180 in units of PI: an angle in radians is kept as its multiple of PI
PI180 == <<1, 180>>

\* the number of quarter turns (mod 4) in an angle given as a multiple of PI
Quarter(theta) == ((2 * theta[1]) \div theta[2]) % 4

\* std::cos and std::sin at the multiples of PI/2
Cos(theta) == Num(<<1, 0, -1, 0>>[Quarter(theta) + 1])

Sin(theta) == Num(<<0, 1, 0, -1>>[Quarter(theta) + 1])

\* ------------------------------------------------------------------------
\* the dense matrix primitive: a matrix is the sequence of its rows
\* ------------------------------------------------------------------------

\* matrix(rows, cols): zero filled
matrix(r, c) == [i \in 1..r |-> [j \in 1..c |-> Zero]]

\* matrix::identity(n)
identity(n) == [i \in 1..n |-> [j \in 1..n |-> IF i = j THEN One ELSE Zero]]

Rows(A) == Len(A)

Cols(A) == Len(A[1])

\* A with element (i, j), counted from 0 as in the code, replaced by v
Put(A, i, j, v) == [A EXCEPT ![i + 1][j + 1] = v]

\* element (i, j), counted from 0 as in the code
At(A, i, j) == A[i + 1][j + 1]

\* the sum over k = 1..n of A[i][k] * B[k][j], accumulated left to right
RECURSIVE DotSum(_, _, _, _, _)
DotSum(A, B, i, j, n) ==
    IF n = 0 THEN Zero
    ELSE RAdd(DotSum(A, B, i, j, n - 1), RMul(A[i][n], B[n][j]))

\* the first n elements of row i of the product A * B
RECURSIVE MulRow(_, _, _, _)
MulRow(A, B, i, n) ==
    IF n = 0 THEN <<>>
    ELSE Append(MulRow(A, B, i, n - 1), DotSum(A, B, i, n, Len(B)))

\* the first n rows of the product A * B
RECURSIVE MulRows(_, _, _)
MulRows(A, B, n) ==
    IF n = 0 THEN <<>>
    ELSE Append(MulRows(A, B, n - 1), MulRow(A, B, n, Len(B[1])))

\* operator* of the matrix primitive (shapes must agree)
MMul(A, B) == MulRows(A, B, Len(A))

MMul3(A, B, C) == MMul(MMul(A, B), C)

MMul4(A, B, C, D) == MMul(MMul(MMul(A, B), C), D)

AllFinite(A) == \A i \in 1..Rows(A) : \A j \in 1..Cols(A) : IsFinite(A[i][j])

\* ------------------------------------------------------------------------
\* inputs
\* ------------------------------------------------------------------------

\* reference points (eye) given to the constructor; <<0,5,0>> is directly
\* above the look-at point
Eyes == {<<3, 4, 0>>, <<4, 0, 3>>, <<0, 5, 0>>}

\* screen centres given to the constructor; the driver passes (400, 400)
Centers == {<<400, 400>>, <<400, 300>>}

\* FOV values given to the constructor; the driver passes 1000
Fovs == {1000}

Col(x, y, z) == <<Num(x), Num(y), Num(z), One>>

\* the 4 x n matrix whose columns are cs
FromCols(cs) == [i \in 1..4 |-> [j \in 1..Len(cs) |-> cs[j][i]]]

\* vertex batches handed to modelToDevice: the triangles of three vertices
\* the handler loads, and a batch of four vertices
Batches ==
    { FromCols(<<Col(0, 0, 0), Col(100, 0, 0), Col(0, 100, 0)>>),
      FromCols(<<Col(0, 0, 0), Col(30, 40, 50), Col(0, 0, 100), Col(10, 20, 1000)>>) }

\* arguments of scale: the handler's (2,2) and (0.5,0.5), and a zero factor
ScaleArgs == {<<Num(2), Num(2)>>, <<Norm(1, 2), Norm(1, 2)>>,
              <<Num(0), Num(1)>>}

\* arguments of scale with unequal factors, each the reciprocal of the other
MixedScaleArgs == {<<Num(2), Norm(1, 2)>>, <<Norm(1, 2), Num(2)>>}

\* arguments of rotate, in degrees
RotateArgs == {Num(90), Num(-90)}

\* arguments of translate: the handler's arrow keys and the specification's
\* example
TranslateArgs == {<<20, 0>>, <<0, -20>>, <<10, -10>>}

\* arguments of hOrbit and vOrbit, in degrees
OrbitArgs == {Num(90), Num(-90)}

\* arguments of adjustFOV: the handler's 'z' and 'x' keys
FovArgs == {Num(10), Num(-10)}

\* ------------------------------------------------------------------------
\* state
\* ------------------------------------------------------------------------

VARIABLES
    p0,                     \* the reference point (eye), a 3 x 1 matrix
    zf,                     \* the FOV value
    hdeg, vdeg,             \* cumulative orbit angles, in radians
    toModelCoordinates,     \* the inverse transform
    toDeviceCoordinates,    \* the forward transform
    changeBasisMatrix,      \* the basis transform
    hOrbitMatrix, vOrbitMatrix,
    translateToOrigin, translateFromOrigin,
    shapeVerticies,         \* the vertex batch of the drawn image
    deviceCoordinates,      \* what modelToDevice returned at the last redraw
    projIn, projOut,        \* the batch project was given in that call, and
                            \* the batch as project left it
    modelCoordinates,       \* what deviceToModel returned at its last call
    fwdPrev,                \* toDeviceCoordinates before the last call
    args,                   \* the constructor's arguments
    last,                   \* the last call: <<name, argument, argument>>
    prev,                   \* the name of the call before the last
    calls,                  \* the names of the calls made since construction
    hRun,                   \* hOrbitMatrix before each of the trailing
                            \* consecutive hOrbit(90) calls (at most four)
    nops                    \* number of calls made

vars == <<p0, zf, hdeg, vdeg, toModelCoordinates, toDeviceCoordinates,
          changeBasisMatrix, hOrbitMatrix, vOrbitMatrix, translateToOrigin,
          translateFromOrigin, shapeVerticies, deviceCoordinates, projIn,
          projOut, modelCoordinates, fwdPrev, args, last, prev, calls, hRun,
          nops>>

\* ------------------------------------------------------------------------
\* private helpers of ViewContext
\* ------------------------------------------------------------------------

Vec3(x, y, z) == <<<<x>>, <<y>>, <<z>>>>

crossProduct3X1(a, b) ==
    Vec3(RSub(RMul(At(a, 1, 0), At(b, 2, 0)), RMul(At(a, 2, 0), At(b, 1, 0))),
         RNeg(RSub(RMul(At(a, 0, 0), At(b, 2, 0)), RMul(At(a, 2, 0), At(b, 0, 0)))),
         RSub(RMul(At(a, 0, 0), At(b, 1, 0)), RMul(At(a, 1, 0), At(b, 0, 0))))

magnitude(a) ==
    RSqrt(RAdd(RAdd(RSq(At(a, 0, 0)), RSq(At(a, 1, 0))), RSq(At(a, 2, 0))))

normalize(a) ==
    LET norm == magnitude(a)
    IN  Vec3(RDiv(At(a, 0, 0), norm), RDiv(At(a, 1, 0), norm),
             RDiv(At(a, 2, 0), norm))

dot(a, b) ==
    RAdd(RAdd(RMul(At(a, 0, 0), At(b, 0, 0)), RMul(At(a, 1, 0), At(b, 1, 0))),
         RMul(At(a, 2, 0), At(b, 2, 0)))

\* the change of basis matrix built by transformBasis from the eye p
transformBasis(p) ==
    LET N == p
        V == Vec3(Zero, One, Zero)
        L == crossProduct3X1(V, N)
        l == normalize(L)
        n == normalize(N)
        m == crossProduct3X1(n, l)
    IN  << <<At(l, 0, 0), At(l, 1, 0), At(l, 2, 0), RMul(Num(-1), dot(l, p))>>,
           <<At(m, 0, 0), At(m, 1, 0), At(m, 2, 0), RMul(Num(-1), dot(m, p))>>,
           <<At(n, 0, 0), At(n, 1, 0), At(n, 2, 0), RMul(Num(-1), dot(n, p))>>,
           <<Zero, Zero, Zero, One>> >>

\* the four matrices resetTransformMatricies sets
resetTransformMatricies == identity(4)

\* translateToOrigin as originToCenter fills it
ToOrigin(x, y) ==
    Put(Put(identity(4), 0, 3, RNeg(Num(x))), 1, 3, RNeg(Num(y)))

\* translateFromOrigin as originToCenter fills it
FromOrigin(x, y) == Put(Put(identity(4), 0, 3, Num(x)), 1, 3, Num(y))

\* toDeviceCoordinates as originToCenter leaves it
originToCenter(x, y, toDev) == MMul(FromOrigin(x, y), toDev)

\* ------------------------------------------------------------------------
\* conversions
\* ------------------------------------------------------------------------

\* a after the assignment to element (j, i) in the loop body of project
ProjectElem(a, fov, j, i) ==
    Put(a, j, i, RDiv(RMul(fov, At(a, j, i)), RAdd(RAbs(At(a, 2, i)), fov)))

\* a after the inner loop of project, j = 0, 1, on column i
ProjectCol(a, fov, i) == ProjectElem(ProjectElem(a, fov, 0, i), fov, 1, i)

\* project: the outer loop runs over the columns i = 0, 1, 2
project(a, fov) == ProjectCol(ProjectCol(ProjectCol(a, fov, 0), fov, 1), fov, 2)

\* deviceCoordinates in modelToDevice when project is called on it
BeforeProject(hOrbit, vOrbit, changeBasis, verts) ==
    MMul(changeBasis, MMul(vOrbit, MMul(hOrbit, verts)))

\* modelToDevice with the two orbit stages exchanged
modelToDevice_VBeforeH(hOrbit, vOrbit, changeBasis, fov, toDevice, verts) ==
    MMul(toDevice,
         project(MMul(changeBasis, MMul(hOrbit, MMul(vOrbit, verts))), fov))

modelToDevice(hOrbit, vOrbit, changeBasis, fov, toDevice, verts) ==
    MMul(toDevice, project(BeforeProject(hOrbit, vOrbit, changeBasis, verts), fov))

\* deviceToModel with the inverse transform applied as well
deviceToModel_Undo(changeBasis, toModel, verts) ==
    MMul(changeBasis, MMul(toModel, verts))

\* toModel is the inverse transform the object holds; the code does not use it
deviceToModel(changeBasis, toModel, verts) == MMul(changeBasis, verts)

\* ------------------------------------------------------------------------
\* construction
\* ------------------------------------------------------------------------

\* the redraw the caller issues after construction and after every call:
\* modelToDevice on the drawn image, with the matrices then current
Redraw ==
    /\ deviceCoordinates' = modelToDevice(hOrbitMatrix', vOrbitMatrix',
                                          changeBasisMatrix', zf',
                                          toDeviceCoordinates', shapeVerticies')
    /\ projIn' = BeforeProject(hOrbitMatrix', vOrbitMatrix',
                               changeBasisMatrix', shapeVerticies')
    /\ projOut' = project(projIn', zf')

\* ViewContext(x0, y0, z0, x, y, zf), followed by the first paint of image
ViewContext(x0, y0, z0, x, y, fov, image) ==
    /\ zf = Num(fov)
    /\ hdeg = Zero
    /\ vdeg = Zero
    /\ p0 = Vec3(Num(x0), Num(y0), Num(z0))
    /\ toModelCoordinates = resetTransformMatricies
    /\ hOrbitMatrix = resetTransformMatricies
    /\ vOrbitMatrix = resetTransformMatricies
    /\ changeBasisMatrix = transformBasis(Vec3(Num(x0), Num(y0), Num(z0)))
    /\ translateToOrigin = ToOrigin(x, y)
    /\ translateFromOrigin = FromOrigin(x, y)
    /\ toDeviceCoordinates = originToCenter(x, y, resetTransformMatricies)
    /\ shapeVerticies = image
    /\ deviceCoordinates =
           modelToDevice(resetTransformMatricies, resetTransformMatricies,
                         transformBasis(Vec3(Num(x0), Num(y0), Num(z0))),
                         Num(fov),
                         originToCenter(x, y, resetTransformMatricies), image)
    /\ projIn = BeforeProject(resetTransformMatricies, resetTransformMatricies,
                              transformBasis(Vec3(Num(x0), Num(y0), Num(z0))),
                              image)
    /\ projOut = project(projIn, Num(fov))
    /\ modelCoordinates = <<>>
    /\ fwdPrev = originToCenter(x, y, resetTransformMatricies)
    /\ args = <<x0, y0, z0, x, y, fov>>
    /\ last = <<"ViewContext", Zero, Zero>>
    /\ prev = "none"
    /\ calls = {}
    /\ hRun = <<>>
    /\ nops = 0

Init ==
    \E e \in Eyes, c \in Centers, f \in Fovs, image \in Batches :
        ViewContext(e[1], e[2], e[3], c[1], c[2], f, image)

\* what no call changes
Fixed ==
    UNCHANGED <<p0, changeBasisMatrix, translateToOrigin, translateFromOrigin,
                shapeVerticies, args>>

\* the bookkeeping of a mutator call other than hOrbit
Called(name, a, b) ==
    /\ last' = <<name, a, b>>
    /\ prev' = last[1]
    /\ calls' = calls \cup {name}
    /\ hRun' = <<>>
    /\ fwdPrev' = toDeviceCoordinates
    /\ UNCHANGED modelCoordinates

\* ------------------------------------------------------------------------
\* the screen-space edits
\* ------------------------------------------------------------------------

\* the edit applied without the pivot
Forward_Unpivoted(M) == MMul(M, toDeviceCoordinates)

\* toDeviceCoordinates after an edit M
Forward(M) ==
    MMul4(translateFromOrigin, M, translateToOrigin, toDeviceCoordinates)

\* toModelCoordinates after an edit whose inverse is U
Inverse(U) ==
    MMul4(toModelCoordinates, translateFromOrigin, U, translateToOrigin)

\* the scale matrix with element (2, 2) left at zero
ScaleMatrix_NoZ(a, b) ==
    Put(Put(Put(matrix(4, 4), 0, 0, a), 1, 1, b), 3, 3, One)

ScaleMatrix(a, b) ==
    Put(Put(Put(Put(matrix(4, 4), 0, 0, a), 1, 1, b), 2, 2, One), 3, 3, One)

\* the undo matrix built from the factors instead of their reciprocals
UndoScaleMatrix_NotInverted(a, b) ==
    Put(Put(Put(Put(matrix(4, 4), 0, 0, a), 1, 1, b), 2, 2, One), 3, 3, One)

UndoScaleMatrix(a, b) ==
    Put(Put(Put(Put(matrix(4, 4), 0, 0, RDiv(One, a)), 1, 1, RDiv(One, b)),
            2, 2, One), 3, 3, One)

scale(a, b) ==
    /\ toDeviceCoordinates' = Forward(ScaleMatrix(a, b))
    /\ toModelCoordinates' = Inverse(UndoScaleMatrix(a, b))
    /\ UNCHANGED <<zf, hdeg, vdeg, hOrbitMatrix, vOrbitMatrix>>
    /\ Fixed
    /\ Called(IF a = Zero \/ b = Zero THEN "scale0" ELSE "scale", a, b)
    /\ Redraw

\* the rotation matrix with the sign of element (0, 1) slipped
RotateMatrix_SignSlip(theta) ==
    Put(Put(Put(Put(Put(Put(matrix(4, 4),
        0, 0, Cos(theta)),
        0, 1, Sin(theta)),
        1, 0, Sin(theta)),
        1, 1, Cos(theta)),
        2, 2, One),
        3, 3, One)

\* the rotation by theta radians about the device normal
RotateMatrix(theta) ==
    Put(Put(Put(Put(Put(Put(matrix(4, 4),
        0, 0, Cos(theta)),
        0, 1, RMul(Num(-1), Sin(theta))),
        1, 0, Sin(theta)),
        1, 1, Cos(theta)),
        2, 2, One),
        3, 3, One)

rotate(theta_deg) ==
    LET theta == RMul(theta_deg, PI180)
    IN  /\ toDeviceCoordinates' = Forward(RotateMatrix(theta))
        /\ toModelCoordinates' = Inverse(RotateMatrix(RNeg(theta)))
        /\ UNCHANGED <<zf, hdeg, vdeg, hOrbitMatrix, vOrbitMatrix>>
        /\ Fixed
        /\ Called("rotate", theta_deg, Zero)
        /\ Redraw

\* the translation matrix with its two offsets exchanged
TranslateMatrix_Swapped(x, y) ==
    Put(Put(identity(4), 0, 3, Num(y)), 1, 3, Num(x))

TranslateMatrix(x, y) == Put(Put(identity(4), 0, 3, Num(x)), 1, 3, Num(y))

translate(x, y) ==
    /\ toDeviceCoordinates' = Forward(TranslateMatrix(x, y))
    /\ toModelCoordinates' = Inverse(TranslateMatrix(-x, -y))
    /\ UNCHANGED <<zf, hdeg, vdeg, hOrbitMatrix, vOrbitMatrix>>
    /\ Fixed
    /\ Called("translate", Num(x), Num(y))
    /\ Redraw

\* reset that also clears the cumulative orbit angles
reset_ClearAngles ==
    /\ toModelCoordinates' = resetTransformMatricies
    /\ hOrbitMatrix' = resetTransformMatricies
    /\ vOrbitMatrix' = resetTransformMatricies
    /\ toDeviceCoordinates' = MMul(translateFromOrigin, resetTransformMatricies)
    /\ hdeg' = Zero
    /\ vdeg' = Zero
    /\ UNCHANGED zf
    /\ Fixed
    /\ Called("reset", Zero, Zero)
    /\ Redraw

reset ==
    /\ toModelCoordinates' = resetTransformMatricies
    /\ hOrbitMatrix' = resetTransformMatricies
    /\ vOrbitMatrix' = resetTransformMatricies
    /\ toDeviceCoordinates' = MMul(translateFromOrigin, resetTransformMatricies)
    /\ UNCHANGED <<zf, hdeg, vdeg>>
    /\ Fixed
    /\ Called("reset", Zero, Zero)
    /\ Redraw

adjustFOV(fov) ==
    /\ zf' = RAdd(zf, fov)
    /\ UNCHANGED <<hdeg, vdeg, toModelCoordinates, toDeviceCoordinates,
                   hOrbitMatrix, vOrbitMatrix>>
    /\ Fixed
    /\ Called("adjustFOV", fov, Zero)
    /\ Redraw

\* ------------------------------------------------------------------------
\* the orbits
\* ------------------------------------------------------------------------

\* the rotation about the y axis by the cumulative angle h
HRotate(h) ==
    Put(Put(Put(Put(identity(4),
        0, 0, Cos(h)),
        0, 2, RMul(One, Sin(h))),
        2, 0, RMul(Num(-1), Sin(h))),
        2, 2, RMul(One, Cos(h)))

hOrbit(degrees) ==
    LET theta == RMul(degrees, PI180)
    IN  /\ hdeg' = RAdd(hdeg, theta)
        /\ hOrbitMatrix' = HRotate(RAdd(hdeg, theta))
        /\ UNCHANGED <<zf, vdeg, toModelCoordinates, toDeviceCoordinates,
                       vOrbitMatrix>>
        /\ Fixed
        /\ last' = <<"hOrbit", degrees, Zero>>
        /\ prev' = last[1]
        /\ calls' = calls \cup {"hOrbit"}
        /\ fwdPrev' = toDeviceCoordinates
        /\ UNCHANGED modelCoordinates
        /\ hRun' = IF degrees = Num(90)
                   THEN (IF Len(hRun) = 4 THEN Tail(hRun) ELSE hRun)
                            \o <<hOrbitMatrix>>
                   ELSE <<>>
        /\ Redraw

\* the axis of the vertical orbit for the eye p
AxisOfRot(p) ==
    crossProduct3X1(Vec3(At(p, 0, 0), Zero, At(p, 2, 0)), Vec3(Zero, One, Zero))

\* sqrt(pow(axis.x, 2) + pow(axis.z, 2))
AxisNorm(axis) == RSqrt(RAdd(RSq(At(axis, 0, 0)), RSq(At(axis, 2, 0))))

rotateToZ(axis) ==
    Put(Put(Put(Put(identity(4),
        0, 0, RDiv(At(axis, 2, 0), AxisNorm(axis))),
        0, 2, RDiv(RMul(Num(-1), At(axis, 0, 0)), AxisNorm(axis))),
        2, 0, RDiv(At(axis, 0, 0), AxisNorm(axis))),
        2, 2, RDiv(At(axis, 2, 0), AxisNorm(axis)))

rotateFromZ(axis) ==
    Put(Put(Put(Put(identity(4),
        0, 0, RDiv(At(axis, 2, 0), AxisNorm(axis))),
        0, 2, RDiv(At(axis, 0, 0), AxisNorm(axis))),
        2, 0, RDiv(At(axis, 0, 0), AxisNorm(axis))),
        2, 2, RDiv(RMul(Num(-1), At(axis, 2, 0)), AxisNorm(axis)))

\* the rotation about the z axis by the cumulative angle v
rotateZ(v) ==
    Put(Put(Put(Put(identity(4),
        0, 0, Cos(v)),
        0, 1, RMul(Num(-1), Sin(v))),
        1, 0, Sin(v)),
        1, 1, Cos(v))

\* zOrbit, the matrix vOrbit stores, for the eye p and cumulative angle v
zOrbit(p, v) ==
    MMul3(rotateToZ(AxisOfRot(p)), rotateZ(v), rotateFromZ(AxisOfRot(p)))

vOrbit(degrees) ==
    LET theta == RMul(degrees, PI180)
    IN  /\ vdeg' = RAdd(vdeg, theta)
        /\ vOrbitMatrix' = zOrbit(p0, RAdd(vdeg, theta))
        /\ UNCHANGED <<zf, hdeg, toModelCoordinates, toDeviceCoordinates,
                       hOrbitMatrix>>
        /\ Fixed
        /\ Called("vOrbit", degrees, Zero)
        /\ Redraw

\* a deviceToModel call on the drawn batch, as made when an image is loaded,
\* and the redraw that follows
DeviceToModel ==
    /\ modelCoordinates' =
           deviceToModel(changeBasisMatrix, toModelCoordinates, shapeVerticies)
    /\ UNCHANGED <<zf, hdeg, vdeg, toModelCoordinates, toDeviceCoordinates,
                   hOrbitMatrix, vOrbitMatrix>>
    /\ Fixed
    /\ last' = <<"deviceToModel", Zero, Zero>>
    /\ prev' = last[1]
    /\ calls' = calls \cup {"deviceToModel"}
    /\ hRun' = <<>>
    /\ fwdPrev' = toDeviceCoordinates
    /\ Redraw

\* ------------------------------------------------------------------------
\* specifications
\* ------------------------------------------------------------------------

Scale == \E ab \in ScaleArgs : scale(ab[1], ab[2])

ScaleMixed == \E ab \in MixedScaleArgs : scale(ab[1], ab[2])

Rotate == \E t \in RotateArgs : rotate(t)

Translate == \E xy \in TranslateArgs : translate(xy[1], xy[2])

Reset == reset

AdjustFOV == \E d \in FovArgs : adjustFOV(d)

HOrbit == \E d \in OrbitArgs : hOrbit(d)

VOrbit == \E d \in OrbitArgs : vOrbit(d)

\* any calls, in any order
Next ==
    /\ nops < MaxOps
    /\ nops' = nops + 1
    /\ \/ Scale
       \/ Rotate
       \/ Translate
       \/ Reset
       \/ AdjustFOV
       \/ HOrbit
       \/ VOrbit
       \/ DeviceToModel

Spec == Init /\ [][Next]_vars

\* the pipeline the driver constructs, drawing a triangle
InitDriver ==
    /\ Init
    /\ args[4] = 400 /\ args[5] = 400 /\ args[6] = 1000
    /\ Cols(shapeVerticies) = 3

\* a triangle drawn from the eye (3, 4, 0)
InitEdit ==
    /\ Init
    /\ <<args[1], args[2], args[3]>> = <<3, 4, 0>>
    /\ Cols(shapeVerticies) = 3

\* the screen-space edits and resets only, followed further
NextEdit ==
    /\ nops < MaxEditOps
    /\ nops' = nops + 1
    /\ \/ Scale
       \/ ScaleMixed
       \/ Rotate
       \/ Translate
       \/ Reset

SpecEdit == InitEdit /\ [][NextEdit]_vars

\* orbits and resets only, followed further
NextOrbit ==
    /\ nops < MaxOrbitOps
    /\ nops' = nops + 1
    /\ \/ HOrbit
       \/ VOrbit
       \/ Reset

SpecOrbit == InitDriver /\ [][NextOrbit]_vars

\* the handler's 'z' and 'x' keys only, while the FOV value stays in range
NextKeys ==
    /\ AdjustFOV
    /\ zf'[1] >= -FovSpan
    /\ zf'[1] <= args[6] + FovSpan
    /\ UNCHANGED nops

SpecKeys == InitDriver /\ [][NextKeys]_vars

\* ------------------------------------------------------------------------
\* properties
\* ------------------------------------------------------------------------

EditNames == {"scale", "rotate", "translate"}

\* the eye is on the vertical axis through the look-at point
EyeAbove == At(p0, 0, 0) = Zero /\ At(p0, 2, 0) = Zero

\* C1: after every call of a sequence of scale (non-zero factors), rotate and
\* translate calls on a fresh pipeline, inverseTransform * forwardTransform is
\* the identity matrix.
C1_UndoInvariant ==
    (calls # {} /\ calls \subseteq EditNames /\ ~EyeAbove)
        => MMul(toModelCoordinates, toDeviceCoordinates) = identity(4)

\* C2: a scale call with a zero factor leaves forwardTransform and
\* inverseTransform exactly as they were before the call.
C2_ZeroScaleRejected ==
    [][(last'[1] = "scale0" /\ ~EyeAbove)
          => /\ toDeviceCoordinates' = toDeviceCoordinates
             /\ toModelCoordinates' = toModelCoordinates]_vars

\* C3: fov is strictly positive in every state the handler's 'z' and 'x' keys
\* can reach.
C3_FovPositive == ~EyeAbove => zf[1] > 0

\* C4: a vOrbit call on a pipeline whose eye has zero x and z components is
\* rejected: it does not store a vOrbitTransform.
C4_VOrbitAboveRejected ==
    [][(last'[1] = "vOrbit" /\ EyeAbove) => vOrbitMatrix' = vOrbitMatrix]_vars

\* C5: what modelToDevice returns is forwardTransform applied to the
\* projection of basisTransform * vOrbitTransform * hOrbitTransform * V, with
\* the matrices and the fov current at the call.
C5_StageOrder ==
    LET orbitedH == MMul(hOrbitMatrix, shapeVerticies)
        orbitedV == MMul(vOrbitMatrix, orbitedH)
        inEyeBasis == MMul(changeBasisMatrix, orbitedV)
    IN  deviceCoordinates = MMul(toDeviceCoordinates, project(inEyeBasis, zf))

\* C5 witness: a redraw after both orbits have turned the model, where the
\* order of the two orbit stages shows in the result.
C5_Witness ==
    /\ ~EyeAbove
    /\ last[1] = "vOrbit"
    /\ "hOrbit" \in calls
    /\ AllFinite(deviceCoordinates)
    /\ MMul(vOrbitMatrix, MMul(hOrbitMatrix, shapeVerticies))
           # MMul(hOrbitMatrix, MMul(vOrbitMatrix, shapeVerticies))

\* the columns of the drawn batch that hold the model origin
OriginCols ==
    {j \in 1..Cols(shapeVerticies) :
        [i \in 1..4 |-> shapeVerticies[i][j]] = Col(0, 0, 0)}

\* C6: for an eye off the vertical axis and the constructed fov, a vertex at
\* the model origin is drawn at the screen centre, also after any sequence of
\* scale, rotate, hOrbit and vOrbit calls (no translate).
C6_OriginAtCenter ==
    (~EyeAbove /\ calls \subseteq {"scale", "scale0", "rotate", "hOrbit", "vOrbit"})
        => \A j \in OriginCols :
               /\ deviceCoordinates[1][j] = Num(args[4])
               /\ deviceCoordinates[2][j] = Num(args[5])

\* C6 witness: a scale has changed forwardTransform and an orbit has turned
\* the model, and the origin is still drawn at the centre.
C6_Witness ==
    /\ ~EyeAbove
    /\ calls = {"scale", "vOrbit"}
    /\ toDeviceCoordinates # translateFromOrigin
    /\ vOrbitMatrix # identity(4)
    /\ \E j \in OriginCols : /\ deviceCoordinates[1][j] = Num(args[4])
                             /\ deviceCoordinates[2][j] = Num(args[5])

\* C7: four consecutive hOrbit(90) calls leave hOrbitTransform equal to its
\* value before the first of the four.
C7_FourQuarterTurns ==
    (Len(hRun) = 4 /\ ~EyeAbove) => hOrbitMatrix = hRun[1]

\* the rotation about the vertical axis with cosine c and sine s
YRotation(c, s) ==
    << <<c, Zero, s, Zero>>,
       <<Zero, One, Zero, Zero>>,
       <<RNeg(s), Zero, c, Zero>>,
       <<Zero, Zero, Zero, One>> >>

FreshDevice ==
    modelToDevice(identity(4), identity(4),
                  transformBasis(Vec3(Num(args[1]), Num(args[2]), Num(args[3]))),
                  Num(args[6]), FromOrigin(args[4], args[5]), shapeVerticies)

\* C9: after reset, modelToDevice gives what a freshly constructed pipeline
\* gives.
C9_ResetRestoresView ==
    (last[1] = "reset" /\ ~EyeAbove) => deviceCoordinates = FreshDevice

\* C10: project replaces x and y of every column of its batch by
\* fov * v / (|z| + fov) and leaves the z and homogeneous rows.
C10_ProjectEveryColumn ==
    ~EyeAbove =>
        \A i \in 1..Cols(projIn) :
            /\ \A j \in 1..2 :
                   projOut[j][i] = RDiv(RMul(zf, projIn[j][i]),
                                        RAdd(RAbs(projIn[3][i]), zf))
            /\ projOut[3][i] = projIn[3][i]
            /\ projOut[4][i] = projIn[4][i]

\* C11: scale(a, b) immediately followed by scale(1/a, 1/b), a and b not
\* zero, restores forwardTransform to its value before the pair.
C11_ScalePairRestores ==
    [][(/\ last[1] = "scale"
        /\ last'[1] = "scale"
        /\ last'[2] = RDiv(One, last[2])
        /\ last'[3] = RDiv(One, last[3]))
          => toDeviceCoordinates' = fwdPrev]_vars

\* C11 witness: the handler's '=' and '-' keys, one after the other, on a
\* fresh pipeline: the first scale changed forwardTransform and the second
\* brought it back to the constructed value.
C11_Witness ==
    /\ last = <<"scale", Norm(1, 2), Norm(1, 2)>>
    /\ prev = "scale"
    /\ nops = 2
    /\ fwdPrev # translateFromOrigin
    /\ toDeviceCoordinates = translateFromOrigin

\* C12: rotate(t) immediately followed by rotate(-t) restores
\* forwardTransform to its value before the pair.
C12_RotatePairRestores ==
    [][(/\ last[1] = "rotate"
        /\ last'[1] = "rotate"
        /\ last'[2] = RNeg(last[2]))
          => toDeviceCoordinates' = fwdPrev]_vars

\* C12 witness: rotate(90) then rotate(-90) on a fresh pipeline: the first
\* call changed forwardTransform and the second brought it back.
C12_Witness ==
    /\ last = <<"rotate", Num(-90), Zero>>
    /\ prev = "rotate"
    /\ nops = 2
    /\ fwdPrev # translateFromOrigin
    /\ toDeviceCoordinates = translateFromOrigin

PlainTranslation(x, y) ==
    << <<One,  Zero, Zero, x>>,
       <<Zero, One,  Zero, y>>,
       <<Zero, Zero, One,  Zero>>,
       <<Zero, Zero, Zero, One>> >>

\* C14: translate(x, y) leaves forwardTransform = T(x, y) * forwardTransform
\* before the call and inverseTransform = inverseTransform before the call
\* * T(-x, -y): the pivot matrices contribute nothing, for every screen centre.
C14_TranslateUnpivoted ==
    [][last'[1] = "translate"
         => /\ toDeviceCoordinates' =
                   MMul(PlainTranslation(last'[2], last'[3]),
                        toDeviceCoordinates)
            /\ toModelCoordinates' =
                   MMul(toModelCoordinates,
                        PlainTranslation(RNeg(last'[2]), RNeg(last'[3])))]_vars

\* C14 witness: a translate on the off-square screen centre, after an earlier
\* edit, with both transforms equal to their unpivoted values.
C14_Witness ==
    /\ last = <<"translate", Num(10), Num(-10)>>
    /\ prev \in {"scale", "rotate"}
    /\ <<args[4], args[5]>> = <<400, 300>>
    /\ toDeviceCoordinates = MMul(PlainTranslation(Num(10), Num(-10)), fwdPrev)
    /\ toDeviceCoordinates # fwdPrev

\* C15: in vOrbit, for an eye off the vertical axis, rotateToZ * rotateFromZ
\* is the identity, and the stored vOrbitMatrix is the identity whenever the
\* cumulative vertical angle is 0.
C15_ConjugatingPair ==
    (last[1] = "vOrbit" /\ ~EyeAbove)
        => /\ MMul(rotateToZ(AxisOfRot(p0)), rotateFromZ(AxisOfRot(p0)))
                  = identity(4)
           /\ vdeg = Zero => vOrbitMatrix = identity(4)

\* C16: every scale with non-zero factors, every rotate and every translate
\* leaves inverseTransform * forwardTransform unchanged, so the product stays
\* at the value fixed at construction, which reset() re-establishes.
C16_ProductUnchanged ==
    [][/\ last'[1] \in EditNames
            => MMul(toModelCoordinates', toDeviceCoordinates')
                   = MMul(toModelCoordinates, toDeviceCoordinates)
       /\ last'[1] = "reset"
            => MMul(toModelCoordinates', toDeviceCoordinates')
                   = translateFromOrigin]_vars

\* C16 witness: a scale, a rotate and a translate have been applied and the
\* product is still the one fixed at construction.
C16_Witness ==
    /\ calls = EditNames
    /\ nops = 3
    /\ last[1] = "translate"
    /\ toModelCoordinates # identity(4)
    /\ MMul(toModelCoordinates, toDeviceCoordinates) = translateFromOrigin

====
